---- MODULE Spec2Model ----
(***************************************************************************)
(* Model of oop_bot_v3.py: the address book (Record, AddressBook), the     *)
(* field validators (Phone, Birthday), the command handlers wrapped by     *)
(* input_error, and the command loop of main().                            *)
(*                                                                         *)
(* Strings whose characters the code inspects (phones, birthdays) are      *)
(* sequences of one-character strings; names and command words, which the  *)
(* code only compares for equality, are TLA+ strings.  A datetime is a     *)
(* record [year, month, day, sec] with sec the seconds since midnight.     *)
(* An optional value (None or a value) is the empty or the one-element     *)
(* sequence.                                                               *)
(***************************************************************************)
EXTENDS Integers, Sequences, FiniteSets, TLC

VARIABLES
    pc,      \* where main() is: "input" (at input()), "exited", "crashed"
    data,    \* AddressBook.data: the records in dict (insertion) order
    saved,   \* addressbook.pkl: <<>> when the file is missing, else <<book>>
    cmd,     \* the command word of the last line read, lowercased ("" if none)
    args,    \* the remaining tokens of the last line read
    now,     \* the datetime.now() read while handling the last line, if any
    out,     \* what the last loop iteration printed
    nlines   \* number of lines read so far

vars == <<pc, data, saved, cmd, args, now, out, nlines>>

\* Number of input lines a run of the model reads.
MaxLines == 3

---------------------------------------------------------------------------
(* Strings *)

Digits == {"0", "1", "2", "3", "4", "5", "6", "7", "8", "9"}

DigitVal(c) ==
    CASE c = "0" -> 0 [] c = "1" -> 1 [] c = "2" -> 2 [] c = "3" -> 3
      [] c = "4" -> 4 [] c = "5" -> 5 [] c = "6" -> 6 [] c = "7" -> 7
      [] c = "8" -> 8 [] c = "9" -> 9

Rep(c, n) == [i \in 1..n |-> c]

\* int() of a string of digits
RECURSIVE IntOf(_)
IntOf(s) ==
    IF s = <<>> THEN 0
    ELSE 10 * IntOf(SubSeq(s, 1, Len(s) - 1)) + DigitVal(s[Len(s)])

---------------------------------------------------------------------------
(* Results of calls that may raise: exc = "" is a normal return of val.    *)

Ok(v) == [exc |-> "", msg |-> "", val |-> v]

Raise(e, m) == [exc |-> e, msg |-> m, val |-> <<>>]

---------------------------------------------------------------------------
(* The proleptic Gregorian calendar of datetime *)

IsLeap(y) == y % 4 = 0 /\ (y % 100 # 0 \/ y % 400 = 0)

DaysInMonth(y, m) ==
    IF m = 2 THEN (IF IsLeap(y) THEN 29 ELSE 28)
    ELSE IF m \in {4, 6, 9, 11} THEN 30 ELSE 31

\* datetime(y, m, d) is constructible: MINYEAR <= y <= MAXYEAR and the day exists
ValidYMD(y, m, d) ==
    /\ y >= 1 /\ y <= 9999
    /\ m >= 1 /\ m <= 12
    /\ d >= 1 /\ d <= DaysInMonth(y, m)

RECURSIVE DaysBeforeMonth(_, _)
DaysBeforeMonth(y, m) ==
    IF m = 1 THEN 0 ELSE DaysBeforeMonth(y, m - 1) + DaysInMonth(y, m - 1)

\* date.toordinal(): 1 for 0001-01-01
ToOrdinal(dt) ==
    LET y == dt.year - 1
    IN  y * 365 + (y \div 4) - (y \div 100) + (y \div 400)
        + DaysBeforeMonth(dt.year, dt.month) + dt.day

\* datetime.weekday(): Monday = 0 .. Sunday = 6
Weekday(dt) == (ToOrdinal(dt) + 6) % 7

\* dt + timedelta(days=1)
NextDay(dt) ==
    IF dt.day < DaysInMonth(dt.year, dt.month)
    THEN [dt EXCEPT !.day = @ + 1]
    ELSE IF dt.month < 12
         THEN [dt EXCEPT !.month = @ + 1, !.day = 1]
         ELSE [dt EXCEPT !.year = @ + 1, !.month = 1, !.day = 1]

\* dt + timedelta(days=n), n >= 0
RECURSIVE AddDays(_, _)
AddDays(dt, n) == IF n = 0 THEN dt ELSE AddDays(NextDay(dt), n - 1)

\* a < b on datetimes
DtLess(a, b) ==
    \/ ToOrdinal(a) < ToOrdinal(b)
    \/ ToOrdinal(a) = ToOrdinal(b) /\ a.sec < b.sec

\* (a - b).days: timedelta normalises to 0 <= seconds < 86400, so days is the floor
DaysBetween(a, b) ==
    ((ToOrdinal(a) - ToOrdinal(b)) * 86400 + (a.sec - b.sec)) \div 86400

\* dt.replace(year=y)
ReplaceYear(dt, y) ==
    IF ValidYMD(y, dt.month, dt.day)
    THEN Ok([dt EXCEPT !.year = y])
    ELSE Raise("ValueError", "day is out of range for month")

\* dt.strftime("%Y-%m-%d"): the date without the time of day
FormatYMD(dt) == [year |-> dt.year, month |-> dt.month, day |-> dt.day]

---------------------------------------------------------------------------
(* Field validators *)

\* re.match(r'^\d{10}$', phone) on a token (a token holds no line break)
Phone_validate(phone) ==
    /\ Len(phone) = 10
    /\ \A i \in 1..Len(phone) : phone[i] \in Digits

\* Phone.__init__: the value stored, or ValueError
Phone_init(value) ==
    IF ~Phone_validate(value)
    THEN Raise("ValueError", "Phone number must contain 10 digits")
    ELSE Ok(value)

\* re.match(r'^\d{2}\.\d{2}\.\d{4}$', birthday) on a token
Birthday_validate(birthday) ==
    /\ Len(birthday) = 10
    /\ \A i \in {1, 2, 4, 5, 7, 8, 9, 10} : birthday[i] \in Digits
    /\ birthday[3] = "." /\ birthday[6] = "."

\* datetime.strptime(value, "%d.%m.%Y") for a value of the validated shape:
\* %d matches 01..31 and %m 01..12, else the data does not match the format;
\* then the date is built, which rejects year 0 and a day the month lacks.
Strptime(value) ==
    LET d == IntOf(SubSeq(value, 1, 2))
        m == IntOf(SubSeq(value, 4, 5))
        y == IntOf(SubSeq(value, 7, 10))
    IN  IF d < 1 \/ d > 31 \/ m < 1 \/ m > 12
        THEN Raise("ValueError", "time data does not match format")
        ELSE IF y < 1
        THEN Raise("ValueError", "year 0 is out of range")
        ELSE IF d > DaysInMonth(y, m)
        THEN Raise("ValueError", "day is out of range for month")
        ELSE Ok([year |-> y, month |-> m, day |-> d, sec |-> 0])

\* Variant of Birthday_init that trusts the shape check alone and builds the
\* date from the three groups without asking whether the day exists.
Birthday_init_shape_only(value) ==
    IF ~Birthday_validate(value)
    THEN Raise("ValueError", "Invalid date format. Use DD.MM.YYYY")
    ELSE Ok([year  |-> IntOf(SubSeq(value, 7, 10)),
             month |-> IntOf(SubSeq(value, 4, 5)),
             day   |-> IntOf(SubSeq(value, 1, 2)),
             sec   |-> 0])

\* Birthday.__init__: the datetime stored, or ValueError
Birthday_init(value) ==
    IF ~Birthday_validate(value)
    THEN Raise("ValueError", "Invalid date format. Use DD.MM.YYYY")
    ELSE Strptime(value)

---------------------------------------------------------------------------
(* Record: [name, phones, birthday].  A method that mutates self returns   *)
(* the record as the call leaves it, together with what it raised.         *)

RecRet(rec) == [rec |-> rec, exc |-> "", msg |-> ""]

RecRaise(rec, r) == [rec |-> rec, exc |-> r.exc, msg |-> r.msg]

\* Variant of Record_add_phone that puts the new phone first (insert(0, ...)).
Record_add_phone_front(rec, phone) ==
    LET p == Phone_init(phone)
    IN  IF p.exc # "" THEN RecRaise(rec, p)
        ELSE RecRet([rec EXCEPT !.phones = <<p.val>> \o @])

Record_add_phone(rec, phone) ==
    LET p == Phone_init(phone)
    IN  IF p.exc # "" THEN RecRaise(rec, p)
        ELSE RecRet([rec EXCEPT !.phones = Append(@, p.val)])

\* Record.__init__: the new record, or what add_phone raised
Record_init(name, phone) ==
    LET a == Record_add_phone([name |-> name, phones |-> <<>>, birthday |-> <<>>], phone)
    IN  IF a.exc # "" THEN Raise(a.exc, a.msg)
        ELSE Ok([a.rec EXCEPT !.birthday = <<>>])

Record_remove_phone(rec, phone) ==
    [rec EXCEPT !.phones = SelectSeq(@, LAMBDA p : p # phone)]

\* Variant of Record_edit_phone without the else branch of the loop: a missing
\* old phone is passed over in silence.
Record_edit_phone_silent(rec, old_phone, new_phone) ==
    LET hits == {i \in 1..Len(rec.phones) : rec.phones[i] = old_phone}
    IN  IF hits = {} THEN RecRet(rec)
        ELSE LET i == CHOOSE k \in hits : \A j \in hits : k <= j
             IN  RecRet([rec EXCEPT !.phones[i] = new_phone])

\* Variant of Record_edit_phone without the break: every match is replaced.
Record_edit_phone_all(rec, old_phone, new_phone) ==
    LET hits == {i \in 1..Len(rec.phones) : rec.phones[i] = old_phone}
    IN  IF hits = {}
        THEN RecRaise(rec, Raise("ValueError", "Phone number not found"))
        ELSE RecRet([rec EXCEPT !.phones =
                        [k \in 1..Len(@) |-> IF k \in hits THEN new_phone ELSE @[k]]])

Record_edit_phone(rec, old_phone, new_phone) ==
    LET hits == {i \in 1..Len(rec.phones) : rec.phones[i] = old_phone}
    IN  IF hits = {}
        THEN RecRaise(rec, Raise("ValueError", "Phone number not found"))
        ELSE LET i == CHOOSE k \in hits : \A j \in hits : k <= j
             IN  RecRet([rec EXCEPT !.phones[i] = new_phone])

Record_add_birthday(rec, birthday) ==
    LET b == Birthday_init(birthday)
    IN  IF b.exc # "" THEN RecRaise(rec, b)
        ELSE RecRet([rec EXCEPT !.birthday = <<b.val>>])

Record_find_phone(rec, phone) ==
    LET hits == {i \in 1..Len(rec.phones) : rec.phones[i] = phone}
    IN  IF hits = {} THEN <<>>
        ELSE <<rec.phones[CHOOSE k \in hits : \A j \in hits : k <= j]>>

---------------------------------------------------------------------------
(* AddressBook: the dict as the sequence of its values in insertion order  *)

\* position of key name in the dict, 0 when absent
KeyIndex(book, name) ==
    LET hits == {i \in 1..Len(book) : book[i].name = name}
    IN  IF hits = {} THEN 0 ELSE CHOOSE i \in hits : TRUE

AddressBook_find(book, name) ==
    IF KeyIndex(book, name) = 0 THEN <<>> ELSE <<book[KeyIndex(book, name)]>>

\* self.data[record.name.value] = record: a new key goes last, an old one keeps its place
AddressBook_add_record(book, record) ==
    IF KeyIndex(book, record.name) = 0
    THEN Append(book, record)
    ELSE [book EXCEPT ![KeyIndex(book, record.name)] = record]

AddressBook_delete(book, name) ==
    SelectSeq(book, LAMBDA r : r.name # name)

\* Variant of next_monday that counts weekdays from 1 (isoweekday arithmetic).
AddressBook_next_monday_iso(day) ==
    LET days_to_monday == (8 - Weekday(day)) % 7
    IN  AddDays(day, days_to_monday)

AddressBook_next_monday(day) ==
    LET days_to_monday == (7 - Weekday(day)) % 7
    IN  AddDays(day, days_to_monday)

\* the body of the loop of get_upcoming_birthdays for one record with a birthday:
\* the entries it appends (none or one), or what replace() raised
UpcomingOf(record, today) ==
    LET r1 == ReplaceYear(record.birthday[1], today.year)
    IN  IF r1.exc # "" THEN r1
        ELSE
        LET r2 == IF DtLess(r1.val, today)
                  THEN ReplaceYear(r1.val, today.year + 1)
                  ELSE r1
        IN  IF r2.exc # "" THEN r2
            ELSE
            LET birthday_this_year == r2.val
                days_until_birthday == DaysBetween(birthday_this_year, today)
                congratulation_date ==
                    IF Weekday(birthday_this_year) < 5
                    THEN birthday_this_year
                    ELSE AddressBook_next_monday(birthday_this_year)
            IN  IF 0 <= days_until_birthday /\ days_until_birthday <= 7
                THEN Ok(<<[name |-> record.name,
                           congratulation_date |-> FormatYMD(congratulation_date)]>>)
                ELSE Ok(<<>>)

RECURSIVE UpcomingFrom(_, _, _, _)
UpcomingFrom(book, today, i, upcoming_birthdays) ==
    IF i > Len(book) THEN Ok(upcoming_birthdays)
    ELSE IF book[i].birthday = <<>>
    THEN UpcomingFrom(book, today, i + 1, upcoming_birthdays)
    ELSE LET u == UpcomingOf(book[i], today)
         IN  IF u.exc # "" THEN u
             ELSE UpcomingFrom(book, today, i + 1, upcoming_birthdays \o u.val)

\* today is the datetime.now() the call reads
AddressBook_get_upcoming_birthdays(book, today) ==
    UpcomingFrom(book, today, 1, <<>>)

---------------------------------------------------------------------------
(* Command handlers.  A handler body returns the book as the call leaves   *)
(* it and either the text it returns (msg, with the values printed in it   *)
(* as val) or the exception it raises; input_error turns that into the     *)
(* string that main() prints.                                              *)

Ret(book, msg, val) == [book |-> book, exc |-> "", msg |-> msg, val |-> val]

Thr(book, exc, msg) == [book |-> book, exc |-> exc, msg |-> msg, val |-> <<>>]

\* a printed string: a fixed prefix, the message, the values formatted into it
Text(prefix, msg, val) == [prefix |-> prefix, msg |-> msg, val |-> val]

\* the decorator's wrapper around the result h of the handler body
input_error(h) ==
    [book |-> h.book,
     out  |-> IF h.exc = "" THEN Text("", h.msg, h.val)
              ELSE IF h.exc \in {"ValueError", "KeyError", "IndexError"}
              THEN Text("Error: ", h.msg, <<>>)
              ELSE Text("An unexpected error occurred: ", h.msg, <<>>)]

\* book with the record under key name replaced by rec (a mutation of book.data[name])
SetRecord(book, name, rec) == [book EXCEPT ![KeyIndex(book, name)] = rec]

\* Variant of add_contact that registers the new record before its phone is
\* validated, so a rejected phone leaves a record without phones behind.
add_contact_register_first(book, name, phone) ==
    LET b0 == IF AddressBook_find(book, name) = <<>>
              THEN AddressBook_add_record(
                       book, [name |-> name, phones |-> <<>>, birthday |-> <<>>])
              ELSE book
        a == Record_add_phone(b0[KeyIndex(b0, name)], phone)
    IN  IF a.exc # "" THEN Thr(SetRecord(b0, name, a.rec), a.exc, a.msg)
        ELSE Ret(SetRecord(b0, name, a.rec),
                 IF AddressBook_find(book, name) = <<>>
                 THEN "Contact has been added with phone number"
                 ELSE "Phone number has been added to contact", <<name, phone>>)

add_contact(book, name, phone) ==
    IF AddressBook_find(book, name) = <<>>
    THEN LET record == Record_init(name, phone)
         IN  IF record.exc # "" THEN Thr(book, record.exc, record.msg)
             ELSE Ret(AddressBook_add_record(book, record.val),
                      "Contact has been added with phone number", <<name, phone>>)
    ELSE LET a == Record_add_phone(book[KeyIndex(book, name)], phone)
         IN  IF a.exc # "" THEN Thr(SetRecord(book, name, a.rec), a.exc, a.msg)
             ELSE Ret(SetRecord(book, name, a.rec),
                      "Phone number has been added to contact", <<name, phone>>)

edit_contact_phone(book, name, old_phone, new_phone) ==
    IF AddressBook_find(book, name) = <<>>
    THEN Thr(book, "KeyError", "Contact does not exist")
    ELSE LET e == Record_edit_phone(book[KeyIndex(book, name)], old_phone, new_phone)
         IN  IF e.exc # "" THEN Thr(SetRecord(book, name, e.rec), e.exc, e.msg)
             ELSE Ret(SetRecord(book, name, e.rec),
                      "Contact has been changed phone number", <<name, old_phone, new_phone>>)

show_phones(book, name) ==
    IF AddressBook_find(book, name) = <<>>
    THEN Thr(book, "KeyError", "Contact does not exist")
    ELSE Ret(book, "Phone numbers are", book[KeyIndex(book, name)].phones)

show_all(book) ==
    IF book = <<>>
    THEN Thr(book, "Exception", "No contacts found")
    ELSE Ret(book, "", book)

add_birthday(book, name, birthday) ==
    IF AddressBook_find(book, name) = <<>>
    THEN Thr(book, "KeyError", "Contact does not exist")
    ELSE LET b == Record_add_birthday(book[KeyIndex(book, name)], birthday)
         IN  IF b.exc # "" THEN Thr(SetRecord(book, name, b.rec), b.exc, b.msg)
             ELSE Ret(SetRecord(book, name, b.rec),
                      "Birthday has been added to contact", <<name, birthday>>)

show_birthday(book, name) ==
    IF AddressBook_find(book, name) = <<>>
    THEN Thr(book, "KeyError", "Contact does not exist")
    ELSE IF book[KeyIndex(book, name)].birthday = <<>>
    THEN Thr(book, "ValueError", "Contact has no birthday")
    ELSE Ret(book, "Birthday is", book[KeyIndex(book, name)].birthday)

birthdays(book, today) ==
    LET upcoming_birthdays == AddressBook_get_upcoming_birthdays(book, today)
    IN  IF upcoming_birthdays.exc # ""
        THEN Thr(book, upcoming_birthdays.exc, upcoming_birthdays.msg)
        ELSE IF upcoming_birthdays.val = <<>>
        THEN Ret(book, "No upcoming birthdays", <<>>)
        ELSE Ret(book, "Upcoming birthdays: ", upcoming_birthdays.val)

---------------------------------------------------------------------------
(* Inputs: what the user types and what the clock shows *)

Names == {"Ann", "Bob"}

\* two well-formed phones; nine digits; ten characters with letters
PhoneInputs ==
    {Rep("1", 10), Rep("2", 10), Rep("1", 9),
     <<"1", "2", "3", "4", "5", "a", "b", "c", "d", "e">>}

DayInputs == {<<"0", "0">>, <<"0", "1">>, <<"1", "5">>, <<"2", "9">>, <<"3", "1">>}

MonthInputs == {<<"0", "1">>, <<"0", "2">>, <<"0", "6">>, <<"1", "3">>}

\* DD.MM.2020 for the groups above; 29 and 31 February of 2021; year 0000;
\* and strings of another shape
BirthdayInputs ==
    {dd \o <<".">> \o mm \o <<".", "2", "0", "2", "0">> :
        dd \in DayInputs, mm \in MonthInputs}
    \cup {<<"2", "9", ".", "0", "2", ".", "2", "0", "2", "1">>,
          <<"3", "1", ".", "0", "2", ".", "2", "0", "2", "1">>,
          <<"0", "1", ".", "0", "1", ".", "0", "0", "0", "0">>,
          <<"1", "5", "-", "0", "6", "-", "2", "0", "2", "0">>,
          <<"1", "5", ".", "0", "6", ".", "2", "0">>,
          <<"1", "5", ".", "0", "6", ".", "2", "0", "2", "0", "0">>,
          <<"a", "b", ".", "0", "6", ".", "2", "0", "2", "0">>}

ClockDays ==
    {<<2024, 6, 7>>, <<2024, 6, 8>>, <<2024, 6, 10>>, <<2024, 6, 15>>, <<2024, 6, 16>>,
     <<2025, 6, 10>>, <<2026, 6, 8>>,
     <<2024, 12, 24>>, <<2024, 12, 25>>, <<2027, 12, 28>>,
     <<2024, 2, 25>>, <<2024, 3, 5>>, <<2025, 2, 25>>}

\* midnight sharp and noon
ClockSecs == {0, 43200}

Todays ==
    {[year |-> d[1], month |-> d[2], day |-> d[3], sec |-> s] :
        d \in ClockDays, s \in ClockSecs}

Words ==
    {"hello", "add", "change", "phone", "all", "add-birthday",
     "show-birthday", "birthdays", "close", "exit", "Exit", "help", "foo"}

\* str.lower() on the words above
Lower(w) == CASE w = "Exit" -> "exit" [] OTHER -> w

AddArgs ==
    {<<n, p>> : n \in Names, p \in PhoneInputs}
    \cup {<<>>, <<"Ann">>, <<"Ann", Rep("1", 10), Rep("2", 10)>>}

ChangeArgs ==
    {<<n, o, p>> : n \in Names, o \in PhoneInputs, p \in PhoneInputs}
    \cup {<<>>, <<"Ann", Rep("1", 10)>>}

NameArgs == {<<n>> : n \in Names} \cup {<<>>, <<"Ann", "Bob">>}

AddBirthdayArgs ==
    {<<n, b>> : n \in Names, b \in BirthdayInputs} \cup {<<>>, <<"Ann">>}

---------------------------------------------------------------------------
(* main() *)

parse_input(tokens) ==
    IF Len(tokens) = 0
    THEN Raise("ValueError", "not enough values to unpack")
    ELSE Ok([cmd |-> Lower(Head(tokens)), args |-> Tail(tokens)])

save_data(book) == <<book>>

\* load_data() when addressbook.pkl is missing
Init ==
    /\ pc = "input"
    /\ data = <<>>
    /\ saved = <<>>
    /\ cmd = ""
    /\ args = <<>>
    /\ now = <<>>
    /\ out = Text("", "Welcome to the assistant bot!", <<>>)
    /\ nlines = 0

\* input() returns a line whose tokens parse to command c
Read(tokens, c) ==
    /\ pc = "input"
    /\ nlines < MaxLines
    /\ nlines' = nlines + 1
    /\ parse_input(tokens).exc = ""
    /\ parse_input(tokens).val.cmd = c
    /\ cmd' = c
    /\ args' = parse_input(tokens).val.args

\* the iteration prints text and the loop goes on, the book untouched
Say(text) ==
    /\ out' = text
    /\ UNCHANGED <<pc, data, saved>>

\* the iteration prints what the wrapped handler returned, the book as the handler left it
Handle(h) ==
    /\ data' = input_error(h).book
    /\ out' = input_error(h).out
    /\ UNCHANGED <<pc, saved>>

BadArity(c) == Text("", "Invalid number of arguments for command", <<c>>)

\* the line is empty or blank: parse_input raises ValueError, which main() does not catch
EmptyLine ==
    /\ pc = "input"
    /\ nlines < MaxLines
    /\ nlines' = nlines + 1
    /\ parse_input(<<>>).exc # ""
    /\ pc' = "crashed"
    /\ cmd' = "" /\ args' = <<>> /\ now' = <<>>
    /\ out' = Text("Traceback: ", parse_input(<<>>).msg, <<>>)
    /\ UNCHANGED <<data, saved>>

CaseHello ==
    \E w \in Words :
        /\ Read(<<w>>, "hello")
        /\ now' = <<>>
        /\ Say(Text("", "Hello! How can I help you?", <<>>))

CaseAdd ==
    \E w \in {x \in Words : parse_input(<<x>>).val.cmd = "add"}, a \in AddArgs :
        /\ Read(<<w>> \o a, "add")
        /\ now' = <<>>
        /\ IF Len(a) # 2 THEN Say(BadArity("add"))
           ELSE Handle(add_contact(data, a[1], a[2]))

CaseChange ==
    \E w \in {x \in Words : parse_input(<<x>>).val.cmd = "change"}, a \in ChangeArgs :
        /\ Read(<<w>> \o a, "change")
        /\ now' = <<>>
        /\ IF Len(a) # 3 THEN Say(BadArity("change"))
           ELSE Handle(edit_contact_phone(data, a[1], a[2], a[3]))

CasePhone ==
    \E w \in {x \in Words : parse_input(<<x>>).val.cmd = "phone"}, a \in NameArgs :
        /\ Read(<<w>> \o a, "phone")
        /\ now' = <<>>
        /\ IF Len(a) # 1 THEN Say(BadArity("phone"))
           ELSE Handle(show_phones(data, a[1]))

CaseAll ==
    \E w \in Words :
        /\ Read(<<w>>, "all")
        /\ now' = <<>>
        /\ Handle(show_all(data))

CaseAddBirthday ==
    \E w \in {x \in Words : parse_input(<<x>>).val.cmd = "add-birthday"}, a \in AddBirthdayArgs :
        /\ Read(<<w>> \o a, "add-birthday")
        /\ now' = <<>>
        /\ IF Len(a) # 2 THEN Say(BadArity("add-birthday"))
           ELSE Handle(add_birthday(data, a[1], a[2]))

CaseShowBirthday ==
    \E w \in {x \in Words : parse_input(<<x>>).val.cmd = "show-birthday"}, a \in NameArgs :
        /\ Read(<<w>> \o a, "show-birthday")
        /\ now' = <<>>
        /\ IF Len(a) # 1 THEN Say(BadArity("show-birthday"))
           ELSE Handle(show_birthday(data, a[1]))

CaseBirthdays ==
    \E w \in {x \in Words : parse_input(<<x>>).val.cmd = "birthdays"}, today \in Todays :
        /\ Read(<<w>>, "birthdays")
        /\ now' = <<today>>
        /\ Handle(birthdays(data, today))

CaseClose ==
    \E w \in Words :
        /\ Read(<<w>>, Lower(w))
        /\ Lower(w) \in {"close", "exit"}
        /\ now' = <<>>
        /\ saved' = save_data(data)
        /\ out' = Text("", "Goodbye!", <<>>)
        /\ pc' = "exited"
        /\ UNCHANGED data

CaseHelp ==
    \E w \in Words :
        /\ Read(<<w>>, "help")
        /\ now' = <<>>
        /\ Say(Text("", "Commands:", <<>>))

KnownCommands ==
    {"hello", "add", "change", "phone", "all", "add-birthday", "show-birthday",
     "birthdays", "close", "exit", "help"}

CaseDefault ==
    \E w \in Words :
        /\ Read(<<w>>, Lower(w))
        /\ Lower(w) \notin KnownCommands
        /\ now' = <<>>
        /\ Say(Text("", "Invalid command. Please try again", <<>>))

\* Ctrl-C while main() waits in input()
KeyboardInterrupt ==
    /\ pc = "input"
    /\ saved' = save_data(data)
    /\ out' = Text("", "Goodbye!", <<>>)
    /\ pc' = "exited"
    /\ UNCHANGED <<data, cmd, args, now, nlines>>

Next ==
    \/ EmptyLine
    \/ CaseHello
    \/ CaseAdd
    \/ CaseChange
    \/ CasePhone
    \/ CaseAll
    \/ CaseAddBirthday
    \/ CaseShowBirthday
    \/ CaseBirthdays
    \/ CaseClose
    \/ CaseHelp
    \/ CaseDefault
    \/ KeyboardInterrupt

Spec == Init /\ [][Next]_vars

---------------------------------------------------------------------------
(* Vocabulary of the properties *)

\* a string of exactly 10 decimal digits
TenDigits(s) == Len(s) = 10 /\ \A i \in 1..10 : s[i] \in Digits

\* two digits, dot, two digits, dot, four digits
IsDDMMYYYY(s) ==
    /\ Len(s) = 10
    /\ s[3] = "." /\ s[6] = "."
    /\ \A i \in (1..10) \ {3, 6} : s[i] \in Digits

GregorianLeap(y) == (y % 400 = 0) \/ (y % 4 = 0 /\ y % 100 # 0)

MonthLength(y, m) ==
    CASE m \in {1, 3, 5, 7, 8, 10, 12} -> 31
      [] m \in {4, 6, 9, 11} -> 30
      [] m = 2 -> IF GregorianLeap(y) THEN 29 ELSE 28

\* day d of month m of year y exists (the calendar has no year 0)
RealDate(d, m, y) == y >= 1 /\ m \in 1..12 /\ d >= 1 /\ d <= MonthLength(y, m)

DayOf(s) == 10 * DigitVal(s[1]) + DigitVal(s[2])

MonthOf(s) == 10 * DigitVal(s[4]) + DigitVal(s[5])

YearOf(s) ==
    1000 * DigitVal(s[7]) + 100 * DigitVal(s[8]) + 10 * DigitVal(s[9]) + DigitVal(s[10])

\* the step handled a line whose command is c with n arguments, and the loop goes on
Handled(c, n) ==
    /\ nlines' = nlines + 1
    /\ pc' = "input"
    /\ cmd' = c
    /\ Len(args') = n

\* the state is the one right after a line with command c was handled
After(c) == pc = "input" /\ cmd = c

\* the last handler call returned an error string
IsError(text) == text.prefix \in {"Error: ", "An unexpected error occurred: "}

\* first position of phone in phones
FirstAt(phones, phone) ==
    CHOOSE k \in 1..Len(phones) :
        /\ phones[k] = phone
        /\ \A j \in 1..(k - 1) : phones[j] # phone

Holds(phones, phone) == \E k \in 1..Len(phones) : phones[k] = phone

\* the calendar day of month/day (m, d) in year y, as a datetime at midnight
Occurrence(y, m, d) == [year |-> y, month |-> m, day |-> d, sec |-> 0]

\* whole calendar days from the day of today to the next occurrence of the
\* month/day of birthday: this year's if not before today's day, else next year's
DaysToNext(birthday, today) ==
    LET this == Occurrence(today.year, birthday.month, birthday.day)
        next == Occurrence(today.year + 1, birthday.month, birthday.day)
        d0 == ToOrdinal(today)
    IN  IF ToOrdinal(this) >= d0 THEN ToOrdinal(this) - d0 ELSE ToOrdinal(next) - d0

\* name is among the entries of the list upcoming
Listed(upcoming, name) == \E k \in 1..Len(upcoming) : upcoming[k].name = name

P1 == Rep("1", 10)

P2 == Rep("2", 10)

Feb29 == <<"2", "9", ".", "0", "2", ".", "2", "0", "2", "0">>

---------------------------------------------------------------------------
(* Properties *)

\* C1: every phone stored in every record is a string of exactly 10 decimal
\* digits, whatever add and change commands were run from the empty book.
C1_StoredPhonesAreTenDigits ==
    \A i \in 1..Len(data) : \A j \in 1..Len(data[i].phones) :
        TenDigits(data[i].phones[j])

\* C2: whatever lines are read, main() leaves the loop only through close/exit
\* or an interrupt, and then the snapshot of the book has been saved.
C2_ExitsOnlySavedOnCloseOrInterrupt ==
    pc # "input" => (pc = "exited" /\ saved = <<data>>)

\* C3: a call of birthdays on day D (at any time of day) lists a record with a
\* birthday iff the next occurrence of its month/day is 0 to 7 calendar days
\* after D.
C3_ListedIffWithinSevenDays ==
    (After("birthdays") /\ ~IsError(out)) =>
        \A i \in 1..Len(data) :
            data[i].birthday # <<>> =>
                (Listed(out.val, data[i].name)
                    <=> DaysToNext(data[i].birthday[1], now[1]) \in 0..7)

\* C4: every congratulation date listed is a Monday to Friday: the occurrence
\* itself when that is a weekday, the Monday two days after a Saturday
\* occurrence, the Monday one day after a Sunday occurrence.
C4_CongratulationOnWeekday ==
    (After("birthdays") /\ ~IsError(out)) =>
        \A k \in 1..Len(out.val) :
            LET e == out.val[k]
                b == data[KeyIndex(data, e.name)].birthday[1]
                cd == e.congratulation_date
            IN  /\ Weekday(cd) \in 0..4
                /\ \E y \in {now[1].year, now[1].year + 1} :
                     LET occ == Occurrence(y, b.month, b.day)
                     IN  /\ RealDate(b.day, b.month, y)
                         /\ \/ Weekday(occ) \in 0..4 /\ cd = FormatYMD(occ)
                            \/ Weekday(occ) = 5 /\ ToOrdinal(cd) = ToOrdinal(occ) + 2
                            \/ Weekday(occ) = 6 /\ ToOrdinal(cd) = ToOrdinal(occ) + 1

\* C4 witness: on Monday 2024-06-10 the birthday 15.06 (a Saturday) is listed
\* for Monday 2024-06-17.
C4_Witness ==
    /\ After("birthdays") /\ ~IsError(out)
    /\ now[1].year = 2024 /\ now[1].month = 6 /\ now[1].day = 10
    /\ \E k \in 1..Len(out.val) :
         out.val[k] = [name |-> "Ann",
                       congratulation_date |-> [year |-> 2024, month |-> 6, day |-> 17]]

\* C5: the birthdays command never returns an error string.
C5_BirthdaysNeverFails ==
    After("birthdays") => ~IsError(out)

\* C6: add-birthday on an existing contact succeeds iff the string has the shape
\* DD.MM.YYYY and names a real date, and then stores that date; otherwise it
\* returns an error and the book is unchanged.
C6_BirthdayAcceptedIffRealDate ==
    [][(Handled("add-birthday", 2) /\ KeyIndex(data, args'[1]) # 0) =>
          LET s == args'[2]
              i == KeyIndex(data, args'[1])
          IN  IF IsDDMMYYYY(s) /\ RealDate(DayOf(s), MonthOf(s), YearOf(s))
              THEN /\ ~IsError(out')
                   /\ data' = [data EXCEPT ![i].birthday =
                                  <<Occurrence(YearOf(s), MonthOf(s), DayOf(s))>>]
              ELSE /\ IsError(out')
                   /\ data' = data]_vars

\* C6 witness: 29.02.2020 was accepted and is stored as 2020-02-29.
C6_Witness ==
    /\ After("add-birthday") /\ ~IsError(out)
    /\ args = <<"Ann", Feb29>>
    /\ data[KeyIndex(data, "Ann")].birthday = <<Occurrence(2020, 2, 29)>>

\* C7: add with a valid phone creates a record with that one phone and no
\* birthday when the name is new, and else appends the phone to the record's
\* list; nothing else in the book changes.
C7_AddCreatesOrAppends ==
    [][(Handled("add", 2) /\ TenDigits(args'[2])) =>
          LET n == args'[1]
              p == args'[2]
              i == KeyIndex(data, n)
          IN  /\ ~IsError(out')
              /\ IF i = 0
                 THEN data' = Append(data, [name |-> n, phones |-> <<p>>, birthday |-> <<>>])
                 ELSE data' = [data EXCEPT ![i].phones = Append(@, p)]]_vars

\* C7 witness: three adds for Ann left exactly those three phones in order.
C7_Witness ==
    /\ After("add")
    /\ data = <<[name |-> "Ann", phones |-> <<P1, P2, P1>>, birthday |-> <<>>]>>

\* C8: change fails with "contact does not exist" when the name is no key of the
\* book, with "phone number not found" when the record lacks old, and succeeds
\* only when the contact exists and holds old.
C8_ChangeFailures ==
    [][Handled("change", 3) =>
          LET i == KeyIndex(data, args'[1])
          IN  /\ i = 0 => out' = Text("Error: ", "Contact does not exist", <<>>)
              /\ (i # 0 /\ ~Holds(data[i].phones, args'[2]))
                    => out' = Text("Error: ", "Phone number not found", <<>>)
              /\ ~IsError(out') => (i # 0 /\ Holds(data[i].phones, args'[2]))]_vars

\* C8 witness: a change on the existing contact Ann was refused for a phone
\* she does not hold.
C8_Witness ==
    /\ After("change")
    /\ out = Text("Error: ", "Phone number not found", <<>>)
    /\ KeyIndex(data, "Ann") # 0

\* C9: a successful change replaces the first entry equal to old and leaves
\* every other entry, the record's name and birthday and all other records
\* as they were.
C9_EditsFirstMatchOnly ==
    [][(Handled("change", 3) /\ ~IsError(out')) =>
          LET i == KeyIndex(data, args'[1])
          IN  /\ i # 0
              /\ data' = [data EXCEPT
                            ![i].phones[FirstAt(data[i].phones, args'[2])] = args'[3]]]_vars

\* C9 witness: Ann held the same phone twice and only the first was changed.
C9_Witness ==
    /\ After("change") /\ ~IsError(out)
    /\ args = <<"Ann", P1, P2>>
    /\ data[KeyIndex(data, "Ann")].phones = <<P2, P1>>

\* C10: a handler call that returns an error string leaves the book as it was.
C10_ErrorLeavesBookUnchanged ==
    [][(nlines' = nlines + 1 /\ pc' = "input" /\ IsError(out')) => data' = data]_vars

\* C10 witness: an add with a malformed phone was refused on a book that holds
\* a contact.
C10_Witness ==
    /\ After("add") /\ IsError(out)
    /\ Len(args) = 2 /\ ~TenDigits(args[2])
    /\ KeyIndex(data, args[1]) # 0

====
